---- MODULE Spec2Model ----
(***************************************************************************)
(* Model of music_renamer.py: the sanitizer, the filename generator, the   *)
(* per-file pipeline, the directory scanner and the executor.              *)
(*                                                                         *)
(* Text is a sequence of one-character strings.  Python's None is the     *)
(* value None below, which is no text over the modelled characters.       *)
(***************************************************************************)
EXTENDS Integers, Sequences, FiniteSets, TLC

VARIABLES
    text,        \* sanitizer run: the input string
    res1,        \* sanitizer run: sanitize(text), or NotRun
    res2,        \* sanitizer run: sanitize(res1.text), or NotRun
    spc,         \* sanitizer run: position
    FILENAME_FORMAT,           \* configuration: the template used with a track
    FILENAME_FORMAT_NO_TRACK,  \* configuration: the template used without one
    pfile,       \* pipeline run: the file given to process_file
    presult,     \* pipeline run: the RenameResult returned, or NoResult
    ppc,         \* pipeline run: position
    pcalls,      \* pipeline run: the calls process_file made, in order
    srcKind,     \* what TARGET_PATH is: "dir", "file" or "missing"
    OUTPUT_PATH, \* configuration: the output folder
    DRY_RUN,     \* configuration: preview only
    caseSensitive, \* whether the platform's file names are case-sensitive
    files,       \* the filesystem's files: path -> content
    dirs,        \* the filesystem's directories
    files0,      \* files when the run started
    dirs0,       \* dirs when the run started
    pc,          \* main(): position
    audio_files, \* scan_directory: the sorted list of found paths
    successful,  \* scan_directory: the RenameResults with success
    failed,      \* scan_directory: the other RenameResults
    idx,         \* execute_copy_rename: index of the next result in its loop
    copied_count,
    sanitized_count,
    failed_count,
    errors,      \* execute_copy_rename: the error list
    log,         \* the passes of the two copy loops: tree, index, source, destination,
                 \* whether the destination existed before the copy, copied or not
    report,      \* print_dry_run_report: the summary counts printed
    status       \* the process's exit status, Running until it ends

None == <<"None">>
NotRun == [text |-> None, changed |-> FALSE, ran |-> FALSE]

(***************************************************************************)
(* Bounds of the sanitizer inputs.                                         *)
(***************************************************************************)
MaxLen == 4
MaxDashLen == 7

\* Characters the inputs are drawn from.
Alphabet == {"a", " ", "\t", "-", ".", ":", "?", "<", "\""}
DashAlphabet == {"a", " ", "-"}

RECURSIVE SeqsUpTo(_, _)
SeqsUpTo(S, n) ==
    IF n = 0 THEN {<<>>}
    ELSE LET shorter == SeqsUpTo(S, n - 1)
         IN  shorter \cup {Append(s, c) : s \in {t \in shorter : Len(t) = n - 1}, c \in S}

(***************************************************************************)
(* Configuration: REPLACEMENTS, INVALID_CHARS.                             *)
(***************************************************************************)
\* Rows 5 and 6 of the table are written in the file with straight quotes:
\* the two lines read as ONE pair whose first element is the triple-quoted
\* literal below (it spans the end of line 38 and the start of line 39).
TripleQuotedOld ==
    <<",", " ", "\"", "'", "\"", ")", ",", " ", " ", " ", " ", " ", " ",
      "#", " ", "C", "u", "r", "l", "y", " ", "q", "u", "o", "t", "e", " ",
      "t", "o", " ", "a", "p", "o", "s", "t", "r", "o", "p", "h", "e", "\n",
      " ", " ", " ", " ", "(">>

REPLACEMENTS ==
    << <<(<<":">>), (<<"-">>)>>,
       <<(<<"|">>), (<<"-">>)>>,
       <<(<<"/">>), (<<"-">>)>>,
       <<(<<"?">>), (<<>>)>>,
       <<TripleQuotedOld, (<<"'">>)>>,
       <<(<<"\"">>), (<<"'">>)>>,
       <<(<<"<">>), (<<"(">>)>>,
       <<(<<">">>), (<<")">>)>>,
       <<(<<"*">>), (<<>>)>>,
       <<(<<"\\">>), (<<"-">>)>> >>

INVALID_CHARS == {"<", ">", ":", "\"", "/", "\\", "|", "?", "*"}

\* \s of the re module, over the modelled characters.
IsSpace(c) == c \in {" ", "\t", "\n"}

(***************************************************************************)
(* String helpers.                                                         *)
(***************************************************************************)
Drop(s, n) == SubSeq(s, n + 1, Len(s))
Take(s, n) == SubSeq(s, 1, n)

StartsWith(s, p) == Len(p) <= Len(s) /\ Take(s, Len(p)) = p

\* str.replace(old, new), old non-empty: leftmost non-overlapping occurrences.
RECURSIVE StrReplace(_, _, _)
StrReplace(s, old, new) ==
    IF s = <<>> THEN <<>>
    ELSE IF StartsWith(s, old) THEN new \o StrReplace(Drop(s, Len(old)), old, new)
    ELSE <<Head(s)>> \o StrReplace(Tail(s), old, new)

\* for old, new in REPLACEMENTS: result = result.replace(old, new)
RECURSIVE ApplyReplacements(_, _)
ApplyReplacements(s, i) ==
    IF i > Len(REPLACEMENTS) THEN s
    ELSE ApplyReplacements(StrReplace(s, REPLACEMENTS[i][1], REPLACEMENTS[i][2]), i + 1)

\* INVALID_CHARS_PATTERN.sub('', result)
StripInvalid(s) == SelectSeq(s, LAMBDA c : c \notin INVALID_CHARS)

has_invalid_chars(s) == s # None /\ \E i \in 1..Len(s) : s[i] \in INVALID_CHARS

\* Number of leading characters of s that satisfy the test.
RECURSIVE SpanSpace(_)
SpanSpace(s) == IF s # <<>> /\ IsSpace(Head(s)) THEN 1 + SpanSpace(Tail(s)) ELSE 0

RECURSIVE SpanDash(_)
SpanDash(s) == IF s # <<>> /\ Head(s) = "-" THEN 1 + SpanDash(Tail(s)) ELSE 0

\* Mutation of CollapseSpaces: whitespace runs are removed, not replaced by a space.
RECURSIVE CollapseSpaces_Removing(_)
CollapseSpaces_Removing(s) ==
    IF s = <<>> THEN <<>>
    ELSE IF IsSpace(Head(s)) THEN CollapseSpaces_Removing(Drop(s, SpanSpace(s)))
    ELSE <<Head(s)>> \o CollapseSpaces_Removing(Tail(s))

\* re.sub(r'\s+', ' ', result)
RECURSIVE CollapseSpaces(_)
CollapseSpaces(s) ==
    IF s = <<>> THEN <<>>
    ELSE IF IsSpace(Head(s)) THEN <<" ">> \o CollapseSpaces(Drop(s, SpanSpace(s)))
    ELSE <<Head(s)>> \o CollapseSpaces(Tail(s))

\* re.sub(r'-{2,}', '-', result)
RECURSIVE CollapseDashes(_)
CollapseDashes(s) ==
    IF s = <<>> THEN <<>>
    ELSE IF SpanDash(s) >= 2 THEN <<"-">> \o CollapseDashes(Drop(s, SpanDash(s)))
    ELSE <<Head(s)>> \o CollapseDashes(Tail(s))

\* Length of the match of \s*-\s*-\s* at the start of s, 0 when there is none.
\* Each \s* is greedy and is followed by a character that is no whitespace, so
\* backtracking finds no other match.
DashPairMatch(s) ==
    LET a == SpanSpace(s)
        s1 == Drop(s, a)
    IN  IF s1 = <<>> \/ Head(s1) # "-" THEN 0
        ELSE LET b == SpanSpace(Tail(s1))
                 s2 == Drop(Tail(s1), b)
             IN  IF s2 = <<>> \/ Head(s2) # "-" THEN 0
                 ELSE a + 1 + b + 1 + SpanSpace(Tail(s2))

\* re.sub(r'\s*-\s*-\s*', ' - ', result): leftmost matches, left to right,
\* the scan resuming after each match.
RECURSIVE NormalizeDashPairs(_)
NormalizeDashPairs(s) ==
    IF s = <<>> THEN <<>>
    ELSE IF DashPairMatch(s) > 0
         THEN <<" ", "-", " ">> \o NormalizeDashPairs(Drop(s, DashPairMatch(s)))
         ELSE <<Head(s)>> \o NormalizeDashPairs(Tail(s))

StripChars == {" ", ".", "-"}

RECURSIVE LStrip(_)
LStrip(s) == IF s # <<>> /\ Head(s) \in StripChars THEN LStrip(Tail(s)) ELSE s

RECURSIVE RStrip(_)
RStrip(s) ==
    IF s # <<>> /\ s[Len(s)] \in StripChars THEN RStrip(Take(s, Len(s) - 1)) ELSE s

\* result.strip(' .-')
Strip(s) == RStrip(LStrip(s))

(***************************************************************************)
(* sanitize(text) -> (sanitized_text, was_changed)                         *)
(***************************************************************************)
SanitizeText(s) ==
    Strip(NormalizeDashPairs(CollapseDashes(CollapseSpaces(
        StripInvalid(ApplyReplacements(s, 1))))))

sanitize(s) ==
    IF s = None THEN [text |-> None, changed |-> FALSE]
    ELSE [text |-> SanitizeText(s), changed |-> SanitizeText(s) # s]

(***************************************************************************)
(* Letters, digits, numbers.                                               *)
(***************************************************************************)
UpperLetters ==
    <<"A", "B", "C", "D", "E", "F", "G", "H", "I", "J", "K", "L", "M",
      "N", "O", "P", "Q", "R", "S", "T", "U", "V", "W", "X", "Y", "Z">>
LowerLetters ==
    <<"a", "b", "c", "d", "e", "f", "g", "h", "i", "j", "k", "l", "m",
      "n", "o", "p", "q", "r", "s", "t", "u", "v", "w", "x", "y", "z">>
Digits == <<"0", "1", "2", "3", "4", "5", "6", "7", "8", "9">>

IndexIn(c, table) ==
    IF \E i \in 1..Len(table) : table[i] = c
    THEN CHOOSE i \in 1..Len(table) : table[i] = c
    ELSE 0

UpperToLower == [c \in {UpperLetters[i] : i \in 1..26} |-> LowerLetters[IndexIn(c, UpperLetters)]]
LowerToUpper == [c \in {LowerLetters[i] : i \in 1..26} |-> UpperLetters[IndexIn(c, LowerLetters)]]

LowerChar(c) == IF c \in DOMAIN UpperToLower THEN UpperToLower[c] ELSE c
UpperChar(c) == IF c \in DOMAIN LowerToUpper THEN LowerToUpper[c] ELSE c

\* str.lower(), str.upper()
Lower(s) == [i \in 1..Len(s) |-> LowerChar(s[i])]
Upper(s) == [i \in 1..Len(s) |-> UpperChar(s[i])]

IsDigit(c) == c \in {"0", "1", "2", "3", "4", "5", "6", "7", "8", "9"}
DigitVal(c) == IndexIn(c, Digits) - 1

\* str(n) for n >= 0
RECURSIVE NatToStr(_)
NatToStr(n) ==
    IF n < 10 THEN <<Digits[n + 1]>>
    ELSE NatToStr(n \div 10) \o <<Digits[(n % 10) + 1]>>

RECURSIVE DigitsValue(_)
DigitsValue(s) ==
    IF s = <<>> THEN 0 ELSE 10 * DigitsValue(Take(s, Len(s) - 1)) + DigitVal(s[Len(s)])

RECURSIVE LStripSpace(_)
LStripSpace(s) == IF s # <<>> /\ IsSpace(Head(s)) THEN LStripSpace(Tail(s)) ELSE s

RECURSIVE RStripSpace(_)
RStripSpace(s) ==
    IF s # <<>> /\ IsSpace(s[Len(s)]) THEN RStripSpace(Take(s, Len(s) - 1)) ELSE s

\* The literal int() accepts: whitespace around an optional sign and digits.
IntBody(s) ==
    LET t == RStripSpace(LStripSpace(s))
    IN  IF t # <<>> /\ Head(t) \in {"+", "-"} THEN Tail(t) ELSE t

IntNegative(s) ==
    LET t == RStripSpace(LStripSpace(s)) IN t # <<>> /\ Head(t) = "-"

\* int(s) raises ValueError unless this holds.
IntParses(s) ==
    /\ IntBody(s) # <<>>
    /\ \A i \in 1..Len(IntBody(s)) : IsDigit(IntBody(s)[i])

IntValue(s) == IF IntNegative(s) THEN 0 - DigitsValue(IntBody(s)) ELSE DigitsValue(IntBody(s))

\* f"{n:02d}": the sign counts in the width of 2.
Format02d(n) ==
    IF n < 0 THEN <<"-">> \o NatToStr(0 - n)
    ELSE IF n < 10 THEN <<"0">> \o NatToStr(n)
    ELSE NatToStr(n)

(***************************************************************************)
(* Paths: a path is a sequence of components, each a text.                 *)
(***************************************************************************)
PathName(p) == p[Len(p)]
PathParent(p) == Take(p, Len(p) - 1)

\* Index of the last "." of a name, 0 when there is none.
RECURSIVE RFindDot(_)
RFindDot(n) ==
    IF n = <<>> THEN 0
    ELSE IF n[Len(n)] = "." THEN Len(n)
    ELSE RFindDot(Take(n, Len(n) - 1))

\* PurePath.suffix: the last dot counts when it is neither the first nor the
\* last character of the name.
NameSuffix(n) ==
    IF 1 < RFindDot(n) /\ RFindDot(n) < Len(n) THEN Drop(n, RFindDot(n) - 1) ELSE <<>>

\* PurePath.stem
NameStem(n) ==
    IF 1 < RFindDot(n) /\ RFindDot(n) < Len(n) THEN Take(n, RFindDot(n) - 1) ELSE n

EndsWith(s, p) == Len(p) <= Len(s) /\ Drop(s, Len(s) - Len(p)) = p

SUPPORTED_EXTENSIONS ==
    { <<".", "m", "4", "a">>, <<".", "m", "p", "3">>, <<".", "f", "l", "a", "c">>,
      <<".", "o", "g", "g">>, <<".", "o", "p", "u", "s">>, <<".", "w", "m", "a">>,
      <<".", "a", "a", "c">>, <<".", "w", "a", "v">>, <<".", "a", "i", "f", "f">> }

(***************************************************************************)
(* Templates: a sequence of literal characters and placeholders.           *)
(***************************************************************************)
Placeholders == {"{artist}", "{album}", "{track}", "{title}"}

\* '{x}' in fmt
Mentions(fmt, ph) == \E i \in 1..Len(fmt) : fmt[i] = ph

\* fmt.format(artist=..., album=..., track=..., title=...)
RECURSIVE FormatTemplate(_, _)
FormatTemplate(fmt, args) ==
    IF fmt = <<>> THEN <<>>
    ELSE (IF Head(fmt) \in Placeholders THEN args[Head(fmt)] ELSE <<Head(fmt)>>)
         \o FormatTemplate(Tail(fmt), args)

\* Truth value of an optional string: None and '' are false.
Truthy(v) == v # None /\ v # <<>>
OrEmpty(v) == IF Truthy(v) THEN v ELSE <<>>

(***************************************************************************)
(* get_metadata(filepath): a file's tag container is                       *)
(*   readable     FALSE when the tag library returns None or raises        *)
(*   artist, album, title   the tag's first value, None when absent        *)
(*   tracknumber  the easy 'tracknumber' tag, None when absent             *)
(*   trkn         the MP4 'trkn' track number, 0 when absent               *)
(***************************************************************************)
\* track.split('/')[0]
RECURSIVE BeforeSlash(_)
BeforeSlash(s) ==
    IF s = <<>> \/ Head(s) = "/" THEN <<>> ELSE <<Head(s)>> \o BeforeSlash(Tail(s))

IsMP4Path(path) ==
    \/ EndsWith(Lower(PathName(path)), <<".", "m", "4", "a">>)
    \/ EndsWith(Lower(PathName(path)), <<".", "m", "p", "4">>)

\* The return value: is_none says that it is None, and the fields are the dict's.
get_metadata(path, tags) ==
    [is_none |-> ~tags.readable,
     artist |-> tags.artist,
     album |-> tags.album,
     title |-> tags.title,
     track_number |->
         IF IsMP4Path(path)
         THEN (IF tags.trkn # 0 THEN NatToStr(tags.trkn) ELSE None)
         ELSE (IF Truthy(tags.tracknumber) THEN BeforeSlash(tags.tracknumber) ELSE None)]

(***************************************************************************)
(* generate_new_filename(metadata, extension)                              *)
(***************************************************************************)
track_padded(track) ==
    IF Truthy(track)
    THEN (IF IntParses(track) THEN Format02d(IntValue(track)) ELSE track)
    ELSE None

\* Mutation of ChooseFormat: the track value is not looked at.
ChooseFormat_IgnoringTrack(track) ==
    IF Mentions(FILENAME_FORMAT, "{track}") THEN FILENAME_FORMAT ELSE FILENAME_FORMAT_NO_TRACK

ChooseFormat(track) ==
    IF Truthy(track_padded(track)) /\ Mentions(FILENAME_FORMAT, "{track}")
    THEN FILENAME_FORMAT
    ELSE FILENAME_FORMAT_NO_TRACK

generate_new_filename(metadata, extension) ==
    FormatTemplate(ChooseFormat(metadata.track_number),
                   [x \in Placeholders |->
                       CASE x = "{artist}" -> OrEmpty(metadata.artist)
                         [] x = "{album}" -> OrEmpty(metadata.album)
                         [] x = "{track}" -> OrEmpty(track_padded(metadata.track_number))
                         [] x = "{title}" -> OrEmpty(metadata.title)])
    \o extension

(***************************************************************************)
(* get_required_fields()                                                   *)
(***************************************************************************)
Fields == {"artist", "album", "title"}
PlaceholderOf(f) ==
    CASE f = "artist" -> "{artist}" [] f = "album" -> "{album}" [] f = "title" -> "{title}"

get_required_fields ==
    {f \in Fields : \/ Mentions(FILENAME_FORMAT, PlaceholderOf(f))
                    \/ Mentions(FILENAME_FORMAT_NO_TRACK, PlaceholderOf(f))}

(***************************************************************************)
(* process_file(filepath) -> RenameResult                                  *)
(***************************************************************************)
NoReason == [kind |-> "none", fields |-> {}]

Failure(path, kind, fields) ==
    [original_path |-> path, new_name |-> None, success |-> FALSE,
     reason |-> [kind |-> kind, fields |-> fields],
     was_sanitized |-> FALSE, sanitize_details |-> <<>>]

\* Mutation of missing_fields: the loop stops at the first missing field.
missing_fields_FirstOnly(metadata) ==
    LET m == {f \in get_required_fields : ~Truthy(metadata[f])}
    IN  IF m = {} THEN {} ELSE {CHOOSE f \in m : TRUE}

\* if not metadata.get(field): missing_fields.append(field)
missing_fields(metadata) == {f \in get_required_fields : ~Truthy(metadata[f])}

\* sanitized_metadata[field]: sanitize is applied to a value that is true
sanitized_field(metadata, f) ==
    IF Truthy(metadata[f]) THEN sanitize(metadata[f]).text ELSE metadata[f]

field_changed(metadata, f) == Truthy(metadata[f]) /\ sanitize(metadata[f]).changed

sanitized_metadata(metadata) ==
    [artist |-> sanitized_field(metadata, "artist"),
     album |-> sanitized_field(metadata, "album"),
     title |-> sanitized_field(metadata, "title"),
     track_number |-> metadata.track_number]

\* Mutation of process_file: the required fields are looked at before the
\* metadata is tested for None.
process_file_MissingFirst(path, tags) ==
    LET extension == Lower(NameSuffix(PathName(path)))
        metadata == get_metadata(path, tags)
    IN  IF extension \notin SUPPORTED_EXTENSIONS
        THEN Failure(path, "Unsupported format", {})
        ELSE IF missing_fields(metadata) # {}
        THEN Failure(path, "Missing metadata", missing_fields(metadata))
        ELSE IF metadata.is_none
        THEN Failure(path, "Could not read metadata", {})
        ELSE [original_path |-> path,
              new_name |-> generate_new_filename(sanitized_metadata(metadata), extension),
              success |-> TRUE,
              reason |-> NoReason,
              was_sanitized |-> \E f \in Fields : field_changed(metadata, f),
              sanitize_details |->
                  [f \in {g \in Fields : field_changed(metadata, g)} |->
                      <<metadata[f], sanitize(metadata[f]).text>>]]

process_file(path, tags) ==
    LET extension == Lower(NameSuffix(PathName(path)))
        metadata == get_metadata(path, tags)
    IN  IF extension \notin SUPPORTED_EXTENSIONS
        THEN Failure(path, "Unsupported format", {})
        ELSE IF metadata.is_none
        THEN Failure(path, "Could not read metadata", {})
        ELSE IF missing_fields(metadata) # {}
        THEN Failure(path, "Missing metadata", missing_fields(metadata))
        ELSE [original_path |-> path,
              new_name |-> generate_new_filename(sanitized_metadata(metadata), extension),
              success |-> TRUE,
              reason |-> NoReason,
              was_sanitized |-> \E f \in Fields : field_changed(metadata, f),
              sanitize_details |->
                  [f \in {g \in Fields : field_changed(metadata, g)} |->
                      <<metadata[f], sanitize(metadata[f]).text>>]]

\* A call process_file makes: the function, the metadata field it is about
\* ("" when it is about none) and the text it is given (None when none).
Call(fn, field, arg) == [fn |-> fn, field |-> field, arg |-> arg]

\* for field in ['artist', 'album', 'title']: if original: sanitize(original)
sanitize_calls(metadata) ==
    LET one(f) == IF Truthy(metadata[f]) THEN <<Call("sanitize", f, metadata[f])>> ELSE <<>>
    IN  one("artist") \o one("album") \o one("title")

\* The calls process_file(path) makes before it returns, in order.
process_file_calls(path, tags) ==
    LET extension == Lower(NameSuffix(PathName(path)))
        metadata == get_metadata(path, tags)
        read == Call("get_metadata", "", PathName(path))
        required == Call("get_required_fields", "", None)
    IN  IF extension \notin SUPPORTED_EXTENSIONS
        THEN <<>>
        ELSE IF metadata.is_none
        THEN <<read>>
        ELSE IF missing_fields(metadata) # {}
        THEN <<read, required>>
        ELSE <<read, required>> \o sanitize_calls(metadata)
             \o <<Call("generate_new_filename", "track_number",
                       sanitized_metadata(metadata).track_number)>>

(***************************************************************************)
(* The filesystem.                                                         *)
(***************************************************************************)
TARGET_PATH == << <<"s", "r", "c">> >>
FailedDirName == <<"_", "f", "a", "i", "l", "e", "d">>

\* What identifies a path on the platform.
PathKey(p) == IF caseSensitive THEN p ELSE [i \in 1..Len(p) |-> Lower(p[i])]

\* Path.exists()
Exists(p) == \E q \in (DOMAIN files) \cup dirs : PathKey(q) = PathKey(p)

IsUnder(p, d) == Len(p) > Len(d) /\ Take(p, Len(d)) = d
Prefixes(p) == {Take(p, n) : n \in 1..Len(p)}

\* Characters in code point order.
CharOrder ==
    <<"\t", "\n", " ", "\"", "#", "'", "(", ")", "*", "+", ",", "-", ".", "/",
      "0", "1", "2", "3", "4", "5", "6", "7", "8", "9", ":", "<", ">", "?">>
    \o UpperLetters \o <<"\\", "_">> \o LowerLetters \o <<"{", "|", "}">>

CodePointRank == [c \in {CharOrder[i] : i \in 1..Len(CharOrder)} |-> IndexIn(c, CharOrder)]

\* Python's ordering of strings
RECURSIVE StrLess(_, _)
StrLess(a, b) ==
    IF b = <<>> THEN FALSE
    ELSE IF a = <<>> THEN TRUE
    ELSE IF Head(a) = Head(b) THEN StrLess(Tail(a), Tail(b))
    ELSE CodePointRank[Head(a)] < CodePointRank[Head(b)]

\* and of lists of strings
RECURSIVE PartsLess(_, _)
PartsLess(p, q) ==
    IF q = <<>> THEN FALSE
    ELSE IF p = <<>> THEN TRUE
    ELSE IF Head(p) = Head(q) THEN PartsLess(Tail(p), Tail(q))
    ELSE StrLess(Head(p), Head(q))

\* PurePath.__lt__: the parts are compared after os.path.normcase
PathLess(p, q) == PartsLess(PathKey(p), PathKey(q))

\* list.sort() of a set of paths
RECURSIVE SortPaths(_)
SortPaths(S) ==
    IF S = {} THEN <<>>
    ELSE LET m == CHOOSE x \in S : \A y \in S \ {x} : PathLess(x, y)
         IN  <<m>> \o SortPaths(S \ {m})

(***************************************************************************)
(* scan_directory(directory)                                               *)
(***************************************************************************)
\* Mutation of SourceRootOk: the is_dir() test is left out.
SourceRootOk_ExistsOnly == srcKind # "missing"

\* if not dir_path.exists(): sys.exit(1); if not dir_path.is_dir(): sys.exit(1)
SourceRootOk == srcKind = "dir"

\* A name matched by the pattern "*" + suffix.
GlobMatches(name, suffix) ==
    IF caseSensitive THEN EndsWith(name, suffix)
    ELSE EndsWith(Lower(name), Lower(suffix))

\* dir_path.rglob(f"*{ext}") and dir_path.rglob(f"*{ext.upper()}") for every
\* supported ext; set() removes the paths found twice.
FoundAudioFiles ==
    {p \in DOMAIN files :
        /\ IsUnder(p, TARGET_PATH)
        /\ \E ext \in SUPPORTED_EXTENSIONS :
              GlobMatches(PathName(p), ext) \/ GlobMatches(PathName(p), Upper(ext))}

ScanResults(paths) == [i \in 1..Len(paths) |-> process_file(paths[i], files[paths[i]].tags)]

(***************************************************************************)
(* execute_copy_rename: collision handling.                                *)
(***************************************************************************)
NumberedName(base, counter, ext) ==
    base \o <<" ", "(">> \o NatToStr(counter) \o <<")">> \o ext

\* Mutation of Probe: the first numbered name is used, free or not.
Probe_Once(dir, base, ext, counter) == Append(dir, NumberedName(base, counter, ext))

\* while dest_path.exists(): dest_path = dir / f"{base} ({counter}){ext}"
RECURSIVE Probe(_, _, _, _)
Probe(dir, base, ext, counter) ==
    IF Exists(Append(dir, NumberedName(base, counter, ext)))
    THEN Probe(dir, base, ext, counter + 1)
    ELSE Append(dir, NumberedName(base, counter, ext))

\* Mutation of Destination: an existing destination is used as it is.
Destination_NoProbe(dir, name) == Append(dir, name)

\* Mutation of Destination: the counter starts at 2.
Destination_CounterFromTwo(dir, name) ==
    IF Exists(Append(dir, name))
    THEN Probe(dir, NameStem(name), NameSuffix(name), 2)
    ELSE Append(dir, name)

\* The destination of a copy of a file wanted under name in dir.
Destination(dir, name) ==
    IF Exists(Append(dir, name))
    THEN Probe(dir, NameStem(name), NameSuffix(name), 1)
    ELSE Append(dir, name)

failed_path == Append(OUTPUT_PATH, FailedDirName)

(***************************************************************************)
(* State.                                                                  *)
(***************************************************************************)
sanVars == <<text, res1, res2, spc>>
cfgVars == <<FILENAME_FORMAT, FILENAME_FORMAT_NO_TRACK>>
pipeVars == <<pfile, presult, ppc, pcalls>>
envVars == <<srcKind, OUTPUT_PATH, DRY_RUN, caseSensitive, files0, dirs0>>
fsVars == <<files, dirs>>
scanVars == <<audio_files, successful, failed>>
execVars == <<idx, copied_count, sanitized_count, failed_count, errors, log>>
runVars == <<envVars, fsVars, scanVars, execVars, pc, report, status>>
vars == <<sanVars, cfgVars, pipeVars, runVars>>

Running == 0 - 1
NoReport == [clean |-> 0, sanitized |-> 0, failed |-> 0]

\* FILENAME_FORMAT = FILENAME_FORMAT_NO_TRACK = "{title} _ {artist}"
ConfiguredFormat == <<"{title}", " ", "_", " ", "{artist}">>

SanIdle == text = None /\ res1 = NotRun /\ res2 = NotRun /\ spc = "idle"

NoFile == [path |-> <<>>, tags |-> <<>>]
NoResult == Failure(<<>>, "none", {})
PipeIdle == pfile = NoFile /\ presult = NoResult /\ ppc = "idle" /\ pcalls = <<>>

RunIdle ==
    /\ srcKind = "missing" /\ OUTPUT_PATH = <<>> /\ DRY_RUN = TRUE /\ caseSensitive = TRUE
    /\ files = <<>> /\ dirs = {} /\ files0 = <<>> /\ dirs0 = {}
    /\ pc = "idle" /\ audio_files = <<>> /\ successful = <<>> /\ failed = <<>>
    /\ idx = 0 /\ copied_count = 0 /\ sanitized_count = 0 /\ failed_count = 0
    /\ errors = <<>> /\ log = <<>> /\ report = NoReport /\ status = Running

ConfigAsWritten ==
    /\ FILENAME_FORMAT = ConfiguredFormat
    /\ FILENAME_FORMAT_NO_TRACK = ConfiguredFormat

(***************************************************************************)
(* The sanitizer applied to a string, and to its own result.               *)
(***************************************************************************)
SanInputs == {None} \cup SeqsUpTo(Alphabet, MaxLen) \cup SeqsUpTo(DashAlphabet, MaxDashLen)

SanInit ==
    /\ text \in SanInputs
    /\ res1 = NotRun /\ res2 = NotRun /\ spc = "start"
    /\ ConfigAsWritten /\ PipeIdle /\ RunIdle

CallSanitize ==
    /\ spc = "start"
    /\ res1' = [text |-> sanitize(text).text, changed |-> sanitize(text).changed, ran |-> TRUE]
    /\ spc' = "once"
    /\ UNCHANGED <<text, res2, cfgVars, pipeVars, runVars>>

CallSanitizeAgain ==
    /\ spc = "once"
    /\ res2' = [text |-> sanitize(res1.text).text, changed |-> sanitize(res1.text).changed,
                ran |-> TRUE]
    /\ spc' = "twice"
    /\ UNCHANGED <<text, res1, cfgVars, pipeVars, runVars>>

SanNext == CallSanitize \/ CallSanitizeAgain

SpecSanitize == SanInit /\ [][SanNext]_vars

(***************************************************************************)
(* Claims about sanitize.                                                  *)
(***************************************************************************)
\* C1: sanitize is idempotent: applied to the text it returned, it returns that
\* same text with changed = false.
C1_Idempotent ==
    spc = "twice" => (res2.text = res1.text /\ ~res2.changed)

\* Some replacement rule's source occurs in s.
HasRuleSource(s) ==
    \E i \in 1..Len(REPLACEMENTS), k \in 0..Len(s) : StartsWith(Drop(s, k), REPLACEMENTS[i][1])

HasInvalidChar(s) == \E k \in 1..Len(s) : s[k] \in INVALID_CHARS

\* C2 as stated: a string with no replacement-rule source character and no
\* platform-invalid character is returned unchanged with changed = false.
C2_NoOpAsStated ==
    (spc = "once" /\ text # None /\ ~HasRuleSource(text) /\ ~HasInvalidChar(text))
        => (res1.text = text /\ ~res1.changed)

\* Every whitespace character of s is a single space between two other characters.
OnlySingleSpaces(s) ==
    \A k \in 1..Len(s) : IsSpace(s[k]) => (s[k] = " " /\ (k < Len(s) => ~IsSpace(s[k + 1])))

\* No two dashes of s are adjacent or separated by whitespace only.
NoDashPair(s) ==
    \A i \in 1..Len(s), j \in 1..Len(s) :
        (i < j /\ s[i] = "-" /\ s[j] = "-") => \E k \in (i + 1)..(j - 1) : ~IsSpace(s[k])

\* s neither starts nor ends with a space, a period or a dash.
NoEdgeToTrim(s) == s = <<>> \/ (s[1] \notin {" ", ".", "-"} /\ s[Len(s)] \notin {" ", ".", "-"})

\* C2 amended: such a string is returned unchanged with changed = false when,
\* besides, its only whitespace is single spaces, no two of its dashes are
\* adjacent or separated by whitespace only, and it neither starts nor ends
\* with a space, a period or a dash.
C2_NoOpAmended ==
    (spc = "once" /\ text # None /\ ~HasRuleSource(text) /\ ~HasInvalidChar(text)
        /\ OnlySingleSpaces(text) /\ NoDashPair(text) /\ NoEdgeToTrim(text))
        => (res1.text = text /\ ~res1.changed)

C2_Witness ==
    /\ spc = "once" /\ text # None /\ ~HasRuleSource(text) /\ ~HasInvalidChar(text)
    /\ OnlySingleSpaces(text) /\ NoDashPair(text) /\ NoEdgeToTrim(text)
    /\ \E i \in 1..Len(text), j \in 1..Len(text) : text[i] = " " /\ text[j] = "-"
    /\ res1.text = text /\ ~res1.changed

(***************************************************************************)
(* process_file applied to one file, under a choice of the two templates.  *)
(***************************************************************************)
TrackFormat == <<"{track}", " ", "{title}", " ", "_", " ", "{artist}">>
AlbumFormat == <<"{album}", "-", "{track}">>
TitleFormat == <<"{title}">>

PipePaths ==
    { << <<"s", ".", "m", "p", "3">> >>, << <<"s", ".", "M", "4", "A">> >>,
      << <<"s", ".", "t", "x", "t">> >> }

ArtistTags == {None, <<>>, <<"Y">>, <<"A", "/", "C">>}
AlbumTags == {None, <<"B">>}
TitleTags == {None, <<"X">>, <<"?">>}
TrackTags ==
    {None, <<>>, <<"7">>, <<"1", "2", "/", "1", "5">>, <<"/", "5">>, <<"x">>, <<"1", ":", "2">>}
TrknTags == {0, 7}

UnreadableTags ==
    [readable |-> FALSE, artist |-> None, album |-> None, title |-> None,
     tracknumber |-> None, trkn |-> 0]

PipeTags(path) ==
    {UnreadableTags} \cup
    {[readable |-> TRUE, artist |-> a, album |-> b, title |-> t, tracknumber |-> n, trkn |-> k] :
        a \in ArtistTags, b \in AlbumTags, t \in TitleTags,
        n \in (IF IsMP4Path(path) THEN {None} ELSE TrackTags),
        k \in (IF IsMP4Path(path) THEN TrknTags ELSE {0})}

PipeInit ==
    /\ FILENAME_FORMAT \in {ConfiguredFormat, TrackFormat, AlbumFormat}
    /\ FILENAME_FORMAT_NO_TRACK \in {ConfiguredFormat, TitleFormat}
    /\ \E path \in PipePaths : \E tags \in PipeTags(path) : pfile = [path |-> path, tags |-> tags]
    /\ presult = NoResult /\ ppc = "start" /\ pcalls = <<>>
    /\ SanIdle /\ RunIdle

CallProcessFile ==
    /\ ppc = "start"
    /\ presult' = process_file(pfile.path, pfile.tags)
    /\ pcalls' = process_file_calls(pfile.path, pfile.tags)
    /\ ppc' = "done"
    /\ UNCHANGED <<pfile, cfgVars, sanVars, runVars>>

PipeNext == CallProcessFile

SpecPipeline == PipeInit /\ [][PipeNext]_vars

(***************************************************************************)
(* Claims about process_file and generate_new_filename.                    *)
(***************************************************************************)
PipeSupported == Lower(NameSuffix(PathName(pfile.path))) \in SUPPORTED_EXTENSIONS

\* The fields among artist/album/title that either template references.
ReferencedFields ==
    {f \in {"artist", "album", "title"} :
        \E i \in 1..Len(FILENAME_FORMAT \o FILENAME_FORMAT_NO_TRACK) :
            (FILENAME_FORMAT \o FILENAME_FORMAT_NO_TRACK)[i] = "{" \o f \o "}"}

\* The referenced fields the file's tags do not give a value for (a tag that is
\* the empty string gives none).
AbsentFields == {f \in ReferencedFields : pfile.tags[f] = None \/ pfile.tags[f] = <<>>}

\* C5: for a file with a supported extension and readable metadata, if some
\* referenced field is absent, process_file returns the missing-fields failure
\* listing exactly the absent referenced fields, whatever else is present; if
\* none is absent, it returns no missing-fields failure.
C5_RequiredFieldGating ==
    (ppc = "done" /\ PipeSupported /\ pfile.tags.readable) =>
        IF AbsentFields # {}
        THEN /\ ~presult.success
             /\ presult.reason = [kind |-> "Missing metadata", fields |-> AbsentFields]
        ELSE presult.reason.kind # "Missing metadata"

C5_Witness ==
    /\ ppc = "done" /\ PipeSupported /\ pfile.tags.readable
    /\ Cardinality(AbsentFields) >= 2
    /\ \E f \in {"artist", "album", "title"} : pfile.tags[f] \notin {None, <<>>}
    /\ presult.reason = [kind |-> "Missing metadata", fields |-> AbsentFields]

\* The track value generate_new_filename is given, and the other arguments.
GivenTrack == get_metadata(pfile.path, pfile.tags).track_number
GivenText(tag) == IF tag \in {None, <<>>} THEN <<>> ELSE sanitize(tag).text
GivenFields(trackText) ==
    [x \in Placeholders |->
        CASE x = "{artist}" -> GivenText(pfile.tags.artist)
          [] x = "{album}" -> GivenText(pfile.tags.album)
          [] x = "{track}" -> trackText
          [] x = "{title}" -> GivenText(pfile.tags.title)]

\* C10: the primary template is used only when a track value exists and the
\* primary template contains {track}, the no-track template otherwise; so with
\* no track number the filename is the no-track template with an empty track
\* segment, even if the primary template contains {track}.
C10_TemplateFallback ==
    (ppc = "done" /\ presult.success) =>
        IF GivenTrack \in {None, <<>>}
        THEN presult.new_name =
                FormatTemplate(FILENAME_FORMAT_NO_TRACK, GivenFields(<<>>))
                    \o Lower(NameSuffix(PathName(pfile.path)))
        ELSE presult.new_name =
                FormatTemplate(IF \E i \in 1..Len(FILENAME_FORMAT) : FILENAME_FORMAT[i] = "{track}"
                               THEN FILENAME_FORMAT ELSE FILENAME_FORMAT_NO_TRACK,
                               GivenFields(track_padded(GivenTrack)))
                    \o Lower(NameSuffix(PathName(pfile.path)))

C10_Witness ==
    /\ ppc = "done" /\ presult.success
    /\ FILENAME_FORMAT = TrackFormat /\ FILENAME_FORMAT_NO_TRACK = ConfiguredFormat
    /\ pfile.tags.tracknumber = <<"/", "5">>
    /\ presult.new_name = <<"X", " ", "_", " ", "Y", ".", "m", "p", "3">>

\* The calls of fn that process_file made, and its calls of sanitize on a field.
CallsOf(fn) == SelectSeq(pcalls, LAMBDA c : c.fn = fn)
SanitizeCallsOn(f) == SelectSeq(pcalls, LAMBDA c : c.fn = "sanitize" /\ c.field = f)

\* C11: process_file ends in exactly one outcome, no step is taken twice, and
\* the precedence is fixed: an unsupported extension gives "Unsupported format"
\* and get_metadata is not called; otherwise unreadable metadata gives "Could
\* not read metadata"; otherwise an absent required field gives "Missing
\* metadata"; otherwise the outcome is Success, each of artist/album/title was
\* sanitized at most once, and the track number the generator is given is the
\* one get_metadata returned, never passed to sanitize.
C11_PipelinePrecedence ==
    ppc = "done" =>
        /\ presult.reason.kind \in
              {"none", "Unsupported format", "Could not read metadata", "Missing metadata"}
        /\ presult.success <=> presult.reason.kind = "none"
        /\ \A fn \in {"get_metadata", "get_required_fields", "generate_new_filename"} :
              Len(CallsOf(fn)) <= 1
        /\ IF ~PipeSupported
           THEN presult.reason.kind = "Unsupported format" /\ CallsOf("get_metadata") = <<>>
           ELSE IF ~pfile.tags.readable
           THEN presult.reason.kind = "Could not read metadata" /\ CallsOf("sanitize") = <<>>
           ELSE IF AbsentFields # {}
           THEN presult.reason.kind = "Missing metadata" /\ CallsOf("sanitize") = <<>>
           ELSE /\ presult.success
                /\ \A f \in {"artist", "album", "title"} : Len(SanitizeCallsOn(f)) <= 1
                /\ SanitizeCallsOn("track_number") = <<>>
                /\ pcalls[Len(pcalls)] =
                      [fn |-> "generate_new_filename", field |-> "track_number", arg |-> GivenTrack]

C11_Witness ==
    /\ ppc = "done" /\ presult.success
    /\ \A f \in {"artist", "album", "title"} : Len(SanitizeCallsOn(f)) = 1
    /\ GivenTrack = <<"1", ":", "2">> /\ sanitize(GivenTrack).text # GivenTrack
    /\ FILENAME_FORMAT = AlbumFormat
    /\ presult.new_name = <<"B", "-", "1", ":", "2", ".", "m", "p", "3">>

\* A template's literal characters are valid in a file name.
TemplateSafe(fmt) ==
    \A i \in 1..Len(fmt) : fmt[i] \in Placeholders \/ fmt[i] \notin INVALID_CHARS

\* C13: when neither template contains a platform-invalid character, the
\* filename of a Success contains none of < > : " / \ | ? *, whatever the tags
\* are, the track number among them.
C13_FilenameSafe ==
    (/\ ppc = "done" /\ presult.success
     /\ TemplateSafe(FILENAME_FORMAT) /\ TemplateSafe(FILENAME_FORMAT_NO_TRACK))
        => \A i \in 1..Len(presult.new_name) : presult.new_name[i] \notin INVALID_CHARS

\* The metadata generate_new_filename is given.
UsedMetadata == sanitized_metadata(get_metadata(pfile.path, pfile.tags))

\* C14: when process_file returns Success, every field among artist/album/title
\* that either template references has a non-empty value in the sanitized
\* metadata the filename is generated from.
C14_RequiredFieldsNonEmpty ==
    (ppc = "done" /\ presult.success)
        => \A f \in ReferencedFields : UsedMetadata[f] # None /\ UsedMetadata[f] # <<>>

(***************************************************************************)
(* main(): the run.                                                        *)
(***************************************************************************)
MaxFiles == 3
MaxCopyErrors == 2

Name_XY == <<"X", " ", "_", " ", "Y", ".", "m", "p", "3">>
Name_b == <<"b", ".", "M", "P", "3">>
Name_c == <<"c", ".", "M", "p", "3">>
Name_notes == <<"n", ".", "t", "x", "t">>
Dir_d == <<"d">>
Dir_out == <<"o", "u", "t">>

\* The audio files the source tree may hold, and the file it always holds.
Candidates ==
    { Append(TARGET_PATH, Name_XY), Append(TARGET_PATH, Name_b), Append(TARGET_PATH, Name_c),
      TARGET_PATH \o <<Dir_d, Name_XY>> }
NotesPath == Append(TARGET_PATH, Name_notes)

CleanTags ==
    [readable |-> TRUE, artist |-> <<"Y">>, album |-> None, title |-> <<"X">>,
     tracknumber |-> None, trkn |-> 0]
SanitizedTags ==
    [readable |-> TRUE, artist |-> <<"Y", " ", "(", "1", ")">>, album |-> None,
     title |-> <<"X", "?">>, tracknumber |-> <<"3">>, trkn |-> 0]
Profiles == {CleanTags, SanitizedTags, UnreadableTags}

\* A file's content: what shutil.copy2 copies.
Content(data, tags) == [data |-> data, tags |-> tags]
OldContent == Content(<<"old">>, UnreadableTags)
PartialContent == Content(<<"partial">>, UnreadableTags)

OutputPaths == {<<Dir_out>>, TARGET_PATH, Append(TARGET_PATH, Dir_d)}

\* What an earlier run left in the output folder.
Leftovers(out) ==
    (Append(out, Name_XY) :> OldContent) @@ (out \o <<FailedDirName, Name_XY>> :> OldContent)

ParentDirs(fs) == UNION {Prefixes(PathParent(p)) : p \in DOMAIN fs}

RunInit ==
    /\ ConfigAsWritten /\ SanIdle /\ PipeIdle
    /\ srcKind \in {"dir", "file", "missing"}
    /\ OUTPUT_PATH \in OutputPaths
    /\ DRY_RUN \in BOOLEAN
    /\ caseSensitive \in BOOLEAN
    /\ \E S \in SUBSET Candidates : \E leftover \in BOOLEAN :
          /\ Cardinality(S) <= MaxFiles
          /\ srcKind # "dir" => (S = {} /\ OUTPUT_PATH = <<Dir_out>>)
          /\ leftover => OUTPUT_PATH = <<Dir_out>>
          /\ \E prof \in [S -> Profiles] :
                files = [p \in S |-> Content(p, prof[p])]
                        @@ (IF srcKind = "dir" THEN NotesPath :> Content(NotesPath, UnreadableTags)
                            ELSE IF srcKind = "file" THEN TARGET_PATH :> OldContent
                            ELSE <<>>)
                        @@ (IF leftover THEN Leftovers(OUTPUT_PATH) ELSE <<>>)
    /\ dirs = ParentDirs(files) \cup (IF srcKind = "dir" THEN {TARGET_PATH} ELSE {})
    /\ files0 = files /\ dirs0 = dirs
    /\ pc = "start"
    /\ audio_files = <<>> /\ successful = <<>> /\ failed = <<>>
    /\ idx = 0 /\ copied_count = 0 /\ sanitized_count = 0 /\ failed_count = 0
    /\ errors = <<>> /\ log = <<>> /\ report = NoReport /\ status = Running

idleVars == <<sanVars, cfgVars, pipeVars, envVars>>

\* scan_directory: sys.exit(1) on a source root that is no directory
ScanFatal ==
    /\ pc = "start"
    /\ ~SourceRootOk
    /\ pc' = "exit"
    /\ status' = 1
    /\ UNCHANGED <<idleVars, fsVars, scanVars, execVars, report>>

\* scan_directory: find, sort and process the audio files
ScanDirectory ==
    /\ pc = "start"
    /\ SourceRootOk
    /\ LET found == SortPaths(FoundAudioFiles)
           results == ScanResults(found)
       IN  /\ audio_files' = found
           /\ successful' = SelectSeq(results, LAMBDA r : r.success)
           /\ failed' = SelectSeq(results, LAMBDA r : ~r.success)
    /\ pc' = "scanned"
    /\ UNCHANGED <<idleVars, fsVars, execVars, report, status>>

\* main: "No audio files found." and return
NoAudioFiles ==
    /\ pc = "scanned"
    /\ successful = <<>> /\ failed = <<>>
    /\ pc' = "done"
    /\ status' = 0
    /\ UNCHANGED <<idleVars, fsVars, scanVars, execVars, report>>

\* Mutation of PrintDryRunReport: the report creates the output folder it names.
PrintDryRunReport_CreatingDirs ==
    /\ pc = "scanned"
    /\ ~(successful = <<>> /\ failed = <<>>)
    /\ DRY_RUN
    /\ report' = [clean |-> 0, sanitized |-> 0, failed |-> Len(failed)]
    /\ dirs' = dirs \cup Prefixes(OUTPUT_PATH)
    /\ pc' = "done"
    /\ status' = 0
    /\ UNCHANGED <<idleVars, files, scanVars, execVars>>

\* print_dry_run_report
PrintDryRunReport ==
    /\ pc = "scanned"
    /\ ~(successful = <<>> /\ failed = <<>>)
    /\ DRY_RUN
    /\ report' = [clean |-> Len(SelectSeq(successful, LAMBDA r : ~r.was_sanitized)),
                  sanitized |-> Len(SelectSeq(successful, LAMBDA r : r.was_sanitized)),
                  failed |-> Len(failed)]
    /\ pc' = "done"
    /\ status' = 0
    /\ UNCHANGED <<idleVars, fsVars, scanVars, execVars>>

\* The position after the body of a loop of execute_copy_rename has run for
\* the i-th result of its list.
LoopNext(tree, i) ==
    IF tree = "output" /\ i < Len(successful) THEN [pc |-> "copy_successful", idx |-> i + 1]
    ELSE IF tree = "output" /\ failed # <<>> THEN [pc |-> "copy_failed", idx |-> 1]
    ELSE IF tree = "failed" /\ i < Len(failed) THEN [pc |-> "copy_failed", idx |-> i + 1]
    ELSE [pc |-> "summary", idx |-> 0]

\* Mutation of AfterCopyError: the exception ends the copying.
AfterCopyError_Abort(tree, i) == [pc |-> "summary", idx |-> 0]

\* except Exception as e: errors.append(...), inside the loop: the loop goes on.
AfterCopyError(tree, i) == LoopNext(tree, i)

\* execute_copy_rename: create the output folder, and _failed when there are failures
CreateOutputDirs ==
    /\ pc = "scanned"
    /\ ~(successful = <<>> /\ failed = <<>>)
    /\ ~DRY_RUN
    /\ dirs' = dirs \cup (IF Exists(OUTPUT_PATH) THEN {} ELSE Prefixes(OUTPUT_PATH))
                    \cup (IF failed # <<>> /\ ~Exists(failed_path)
                          THEN Prefixes(failed_path) ELSE {})
    /\ pc' = IF successful # <<>> THEN "copy_successful" ELSE "copy_failed"
    /\ idx' = 1
    /\ UNCHANGED <<idleVars, files, scanVars, copied_count, sanitized_count, failed_count,
                   errors, log, report, status>>

\* shutil.copy2(src, dest) and what follows it in the try block, or the except
\* block.  The copy raises when src and dest are the same file, and may raise on
\* an I/O error, before dest is created or with dest partly written.
CopyOutcome(tree, src, dest, sanitizedOne) ==
    \E outcome \in {"copied", "error", "error_partial"} :
        /\ outcome = "copied" => PathKey(src) # PathKey(dest)
        /\ outcome = "error_partial" => PathKey(src) # PathKey(dest)
        /\ outcome # "copied" => Len(errors) < MaxCopyErrors
        /\ files' = CASE outcome = "copied" ->
                            (dest :> files[src])
                            @@ [q \in {r \in DOMAIN files : PathKey(r) # PathKey(dest)} |-> files[q]]
                      [] outcome = "error_partial" ->
                            (dest :> PartialContent)
                            @@ [q \in {r \in DOMAIN files : PathKey(r) # PathKey(dest)} |-> files[q]]
                      [] OTHER -> files
        /\ log' = Append(log, [tree |-> tree, index |-> idx, src |-> src, dest |-> dest,
                               existed |-> Exists(dest), copied |-> outcome = "copied"])
        /\ IF outcome = "copied"
           THEN /\ copied_count' = IF tree = "output" THEN copied_count + 1 ELSE copied_count
                /\ sanitized_count' = IF tree = "output" /\ sanitizedOne
                                      THEN sanitized_count + 1 ELSE sanitized_count
                /\ failed_count' = IF tree = "failed" THEN failed_count + 1 ELSE failed_count
                /\ errors' = errors
                /\ pc' = LoopNext(tree, idx).pc
                /\ idx' = LoopNext(tree, idx).idx
           ELSE /\ errors' = Append(errors, PathName(src))
                /\ pc' = AfterCopyError(tree, idx).pc
                /\ idx' = AfterCopyError(tree, idx).idx
                /\ UNCHANGED <<copied_count, sanitized_count, failed_count>>

\* execute_copy_rename: one pass of "for result in successful"
CopySuccessful ==
    /\ pc = "copy_successful"
    /\ LET result == successful[idx]
       IN  CopyOutcome("output", result.original_path,
                       Destination(OUTPUT_PATH, result.new_name), result.was_sanitized)
    /\ UNCHANGED <<idleVars, dirs, scanVars, report, status>>

\* execute_copy_rename: one pass of "for result in failed"
CopyFailed ==
    /\ pc = "copy_failed"
    /\ LET result == failed[idx]
       IN  CopyOutcome("failed", result.original_path,
                       Destination(failed_path, PathName(result.original_path)), FALSE)
    /\ UNCHANGED <<idleVars, dirs, scanVars, report, status>>

\* execute_copy_rename: the summary; main returns
PrintSummary ==
    /\ pc = "summary"
    /\ pc' = "done"
    /\ status' = 0
    /\ UNCHANGED <<idleVars, fsVars, scanVars, execVars, report>>

Next ==
    \/ ScanFatal
    \/ ScanDirectory
    \/ NoAudioFiles
    \/ PrintDryRunReport
    \/ CreateOutputDirs
    \/ CopySuccessful
    \/ CopyFailed
    \/ PrintSummary

Init == RunInit

Spec == Init /\ [][Next]_vars

(***************************************************************************)
(* Claims about the run.                                                   *)
(***************************************************************************)
Executed == ~DRY_RUN /\ pc = "done" /\ (successful # <<>> \/ failed # <<>>)
LogIndices(tree) == {log[n].index : n \in {m \in 1..Len(log) : log[m].tree = tree /\ log[m].copied}}

\* C3: in every state of an execute run, whatever the output root, every file
\* that existed before the run (those under the source root among them) still
\* exists at the same path with the same content, and every folder still
\* exists: the run only adds.
C3_NonDestructive ==
    /\ \A p \in DOMAIN files0 : p \in DOMAIN files /\ files[p] = files0[p]
    /\ dirs0 \subseteq dirs

C3_Witness ==
    /\ Executed /\ OUTPUT_PATH = TARGET_PATH
    /\ errors # <<>> /\ copied_count >= 1 /\ failed_count >= 1
    /\ \E n \in 1..Len(log) :
          /\ log[n].tree = "output" /\ log[n].copied
          /\ log[n].dest # Append(OUTPUT_PATH, successful[log[n].index].new_name)
    /\ \A p \in DOMAIN files0 : p \in DOMAIN files /\ files[p] = files0[p]

\* The names X (1).ext, X (2).ext, ... of a name X.ext.
NumberedNames(name) ==
    {NameStem(name) \o <<" ", "(">> \o NatToStr(n) \o <<")">> \o NameSuffix(name) :
        n \in 1..(MaxFiles + 2)}

\* The output root held name, or one of its numbered names, before the run.
HeldBefore(name) ==
    \E p \in (DOMAIN files0) \cup dirs0 :
        /\ Len(p) = Len(OUTPUT_PATH) + 1 /\ PathKey(PathParent(p)) = PathKey(OUTPUT_PATH)
        /\ PathKey(<<PathName(p)>>) \in {PathKey(<<m>>) : m \in {name} \cup NumberedNames(name)}

\* The successes processed before the i-th that generate its filename.
EarlierSame(i) == {j \in 1..(i - 1) : successful[j].new_name = successful[i].new_name}

ExpectedNumbering(i) ==
    IF EarlierSame(i) = {} THEN successful[i].new_name
    ELSE NameStem(successful[i].new_name) \o <<" ", "(">> \o NatToStr(Cardinality(EarlierSame(i)))
         \o <<")">> \o NameSuffix(successful[i].new_name)

NoOtherAtItsNames(i) ==
    \A m \in 1..Len(log) :
        (log[m].tree = "output" /\ log[m].index < i /\ log[m].index \notin EarlierSame(i))
            => PathKey(<<PathName(log[m].dest)>>) \notin
                   {PathKey(<<x>>) : x \in {successful[i].new_name}
                                          \cup NumberedNames(successful[i].new_name)}

Copies(tree) == {n \in 1..Len(log) : log[n].tree = tree /\ log[n].copied}

\* C12: in an execute run, in the output root and in _failed alike, every copy
\* that succeeds writes to a path that did not exist just before it, the files
\* copied have pairwise distinct destinations, each of them still holds what
\* was copied to it, and every file that was in the output root or in _failed
\* before the run holds what it held.
C12_NoOverwrite ==
    ~DRY_RUN =>
        /\ \A tree \in {"output", "failed"} :
              /\ \A n \in Copies(tree) : ~log[n].existed
              /\ \A m \in Copies(tree), n \in Copies(tree) :
                    m # n => PathKey(log[m].dest) # PathKey(log[n].dest)
              /\ \A n \in Copies(tree) :
                    /\ log[n].dest \in DOMAIN files
                    /\ files[log[n].dest] = files0[log[n].src]
                    /\ PathParent(log[n].dest) = (IF tree = "output" THEN OUTPUT_PATH ELSE failed_path)
        /\ \A p \in DOMAIN files0 :
              IsUnder(p, OUTPUT_PATH) => (p \in DOMAIN files /\ files[p] = files0[p])

C12_Witness ==
    /\ Executed
    /\ \E p \in DOMAIN files0 : Len(p) = Len(OUTPUT_PATH) + 1 /\ IsUnder(p, OUTPUT_PATH)
    /\ \E p \in DOMAIN files0 : IsUnder(p, failed_path)
    /\ \E m \in Copies("output"), n \in Copies("output") :
          /\ m < n
          /\ successful[log[m].index].new_name = successful[log[n].index].new_name
          /\ Append(OUTPUT_PATH, successful[log[m].index].new_name) \in DOMAIN files0
          /\ log[m].dest # log[n].dest
    /\ \E k \in Copies("failed") :
          /\ Append(failed_path, PathName(log[k].src)) \in DOMAIN files0
          /\ PathName(log[k].dest) # PathName(log[k].src)

C7_FatalPrecondition ==
    /\ srcKind # "dir" =>
          /\ pc \in {"start", "exit"}
          /\ pc = "exit" => status = 1
          /\ files = files0 /\ dirs = dirs0
          /\ audio_files = <<>> /\ log = <<>> /\ errors = <<>>
    /\ srcKind = "dir" =>
          /\ pc # "exit"
          /\ status = (IF pc = "done" THEN 0 ELSE Running)
          /\ pc \in {"start", "scanned", "copy_successful", "copy_failed", "summary", "done"}
          /\ pc = "copy_successful" => idx \in 1..Len(successful)
          /\ pc = "copy_failed" => idx \in 1..Len(failed)

C7_Witness ==
    /\ srcKind = "file" /\ pc = "exit" /\ status = 1
    /\ ~Exists(OUTPUT_PATH) /\ ~Exists(failed_path)

\* C8: with the dry-run flag set, whatever the outcomes, the files and folders
\* stay as they were: neither the output root nor _failed is created and
\* nothing is copied.
C8_DryRunNoMutation ==
    DRY_RUN =>
        /\ files = files0 /\ dirs = dirs0
        /\ log = <<>> /\ copied_count = 0 /\ failed_count = 0

C8_Witness ==
    /\ DRY_RUN /\ pc = "done"
    /\ report.clean >= 1 /\ report.sanitized >= 1 /\ report.failed >= 1
    /\ ~Exists(OUTPUT_PATH) /\ ~Exists(failed_path)
    /\ files = files0 /\ dirs = dirs0

\* C9: a file under the source root is in the scan result iff its lower-cased
\* extension is supported, whatever the letter-case of the extension, and it
\* is there once.
C9_ScanCaseInsensitive ==
    pc \notin {"start", "exit"} =>
        /\ \A p \in DOMAIN files0 :
              IsUnder(p, TARGET_PATH) =>
                  ((\E i \in 1..Len(audio_files) : audio_files[i] = p)
                      <=> Lower(NameSuffix(PathName(p))) \in SUPPORTED_EXTENSIONS)
        /\ \A i \in 1..Len(audio_files), j \in 1..Len(audio_files) :
              audio_files[i] = audio_files[j] => i = j

====
